---- MODULE Spec2Model ----
(***************************************************************************)
(* Two-factor login of the pomodoro API: the /login, /verify-2fa and       *)
(* /resend-2fa-code handlers of the auth router, over the user collection  *)
(* and the store of pending verification codes.  The repository holds      *)
(* several iterations of the router; each is modelled as its own           *)
(* specification over the same variables:                                  *)
(*   SpecRedis - the router that keeps codes in Redis (RedisService)       *)
(*   SpecMap   - the router that keeps codes in an in-process Map          *)
(*   SpecStub  - the router whose /verify-2fa is still a TODO stub         *)
(* Further specifications take one part of a router with the inputs that   *)
(* part is about: SpecAccounts and SpecMapAccounts (the account routes),   *)
(* SpecRedisCaught (the earlier Redis router), SpecVerify (the shapes of   *)
(* a submitted code), SpecRaw (the spellings of an e-mail), SpecDrawn (the *)
(* generated codes), SpecToken and SpecAuth (session tokens and the auth   *)
(* middleware) and SpecCache (the response cache).                         *)
(* Every await of a handler is a step of its own, so that requests         *)
(* interleave exactly where the event loop lets them.                      *)
(***************************************************************************)
EXTENDS Integers, FiniteSets, Sequences, TLC

\* ---- bounds of the model ------------------------------------------------
NumProcs == 2          \* requests in flight at once
MaxRequests == 3       \* requests served in one behaviour
MaxTime == 800         \* the clock stops here (seconds)
TickSeconds == 400     \* one step of the clock (seconds)
RandomScale == 2       \* values of Math.random() * 900000 per unit

\* ---- constants of the program -------------------------------------------
ChallengeTTL == 600
MaxFailedAttempts == 3
CacheTTL == 300

Procs == 1..NumProcs
Ids == 1..(MaxRequests + 1)
Emails == {"alice@example.com", "bob@example.com", "nobody@example.com"}
Passwords == {"Secret123", "wrong"}
GenCodes == {"123456", "654321"}
SubmitCodes == {"123456", "000000"}

\* A stored code.  The Redis router stores createdAt (and Redis keeps the
\* expiry), the Map router stores expiresAt in ms and starts without a
\* failedAttempts field (Undefined); id stands for the userId/createdAt pair
\* that tells one generated code from the next.
Undefined == -1
Null == [code |-> "", createdAt |-> 0, expiresAt |-> 0, failedAttempts |-> 0,
         id |-> 0]
NoEntry == [value |-> Null, expireAt |-> 0]
NoIssue == [op |-> "", id |-> 0, code |-> ""]
Loc0 == [op |-> "", email |-> "", code |-> "", stored |-> Null, at |-> 0,
         latest |-> NoIssue, seen |-> {}, prior |-> -1,
         password |-> "", legacy |-> FALSE]
NoRes == [kind |-> "None", id |-> 0, req |-> Loc0]

VARIABLES
  users,        \* the User collection, by (lower-case) email
  redis,        \* the keys of the Redis server: value and expiry time
  verificationCodes, \* the in-process Map of the Map router, by email
  now,          \* the clock, in seconds
  pc,           \* where each request handler stands
  loc,          \* the locals of each request handler
  last,         \* the last response sent, with the request it answers
  nreq,         \* requests started so far
  nextId,       \* serial number of the next generated code
  tokens,       \* tokens issued per generated code
  invalids,     \* 'Invalid verification code' answers per generated code
  issued        \* per email, the last code announced as sent

vars == <<users, redis, verificationCodes, now, pc, loc, last, nreq, nextId,
          tokens, invalids, issued>>

\* ---- src/unnamed/part_020:18 --------------------------------------------
get2FAKey(email) == <<"2fa", email>>

Keys == {get2FAKey(e) : e \in Emails}

\* ---- the User model -----------------------------------------------------
User(pw, active, twoFA, prompted) ==
  [exists |-> TRUE, password |-> pw, isActive |-> active,
   is2FAEnabled |-> twoFA, hasBeenPromptedFor2FA |-> prompted,
   lastLogin |-> -1]

NoUser == [User("", FALSE, FALSE, FALSE) EXCEPT !.exists = FALSE]

\* User.findOne({ email }): the document, or NoUser
findOne(email) == users[email]

comparePassword_AcceptAll(user, candidatePassword) == TRUE

comparePassword(user, candidatePassword) == candidatePassword = user.password

\* ---- RedisService (src/unnamed/part_013) --------------------------------
\* Each call either runs its command or throws ('Redis not connected', or
\* the command's own error); the actions choose between the two.
RedisSet_KeepTTL(store, key, value, expirySeconds) ==
  [store EXCEPT ![key] =
     [value |-> value,
      expireAt |-> IF store[key].value # Null /\ now < store[key].expireAt
                     THEN store[key].expireAt
                     ELSE now + expirySeconds]]

RedisSet(store, key, value, expirySeconds) ==
  [store EXCEPT ![key] = [value |-> value, expireAt |-> now + expirySeconds]]

RedisGet(store, key) ==
  IF store[key].value # Null /\ now < store[key].expireAt
    THEN store[key].value
    ELSE Null

RedisDelete(store, key) == [store EXCEPT ![key] = NoEntry]

\* ---- requests and responses -----------------------------------------------
\* A request is served by the first free handler slot.
StartRequest(p) ==
  /\ pc[p] = "idle"
  /\ \A q \in Procs : q < p => pc[q] # "idle"
  /\ nreq < MaxRequests
  /\ nreq' = nreq + 1

\* what a handler knows when its request arrives (used by the properties)
\*   at     - the time of arrival
\*   latest - the last code announced as sent to this email
\*   seen   - the codes that have already bought a token
\*   prior  - the 'Invalid verification code' answers given so far for the
\*            code d stored for this email (-1 when none is stored)
Arrival(op, email, code, d) ==
  [Loc0 EXCEPT !.op = op, !.email = email, !.code = code, !.at = now,
               !.latest = issued[email],
               !.seen = {i \in Ids : tokens[i] > 0},
               !.prior = IF d = Null THEN -1 ELSE invalids[d.id]]

\* the handler answers at once
Reply(p, kind, request) ==
  /\ last' = [kind |-> kind, id |-> request.stored.id, req |-> request]
  /\ UNCHANGED <<pc, loc>>

\* the handler awaits its next call
Await(p, label, locals) ==
  /\ pc' = [pc EXCEPT ![p] = label]
  /\ loc' = [loc EXCEPT ![p] = locals]
  /\ UNCHANGED last

\* the handler answers after an await
Respond(p, kind, id) ==
  /\ last' = [kind |-> kind, id |-> id, req |-> loc[p]]
  /\ pc' = [pc EXCEPT ![p] = "idle"]
  /\ loc' = [loc EXCEPT ![p] = Loc0]

\* the handler answers after an await, about the record it has just read
RespondWith(p, kind, request) ==
  /\ last' = [kind |-> kind, id |-> request.stored.id, req |-> request]
  /\ pc' = [pc EXCEPT ![p] = "idle"]
  /\ loc' = [loc EXCEPT ![p] = Loc0]

Goto(p, label) ==
  /\ pc' = [pc EXCEPT ![p] = label]
  /\ UNCHANGED last

\* no request in flight
InitIdle ==
  /\ now = 0
  /\ pc = [p \in Procs |-> "idle"]
  /\ loc = [p \in Procs |-> Loc0]
  /\ last = NoRes
  /\ nreq = 0
  /\ tokens = [i \in Ids |-> 0]

\* The state of a started server: the users of the collection and no
\* request in flight.
\* alice has two-factor enabled, bob is a legacy identity (active or
\* deactivated), nobody@example.com has no document
Users0(active) ==
  [e \in Emails |->
     CASE e = "alice@example.com" -> User("Secret123", TRUE, TRUE, TRUE)
       [] e = "bob@example.com" -> User("Secret123", active, FALSE, FALSE)
       [] OTHER -> NoUser]

InitCommon ==
  /\ users = Users0(TRUE)
  /\ InitIdle

\* no code stored yet
InitNoCode ==
  /\ nextId = 1
  /\ invalids = [i \in Ids |-> 0]
  /\ issued = [e \in Emails |-> NoIssue]

\* the code of a login of alice at time 0, answered with k wrong codes since
InitPending(k) ==
  /\ nextId = 2
  /\ invalids = [i \in Ids |-> IF i = 1 THEN k ELSE 0]
  /\ issued = [e \in Emails |->
                 IF e = "alice@example.com"
                   THEN [op |-> "login", id |-> 1, code |-> "123456"]
                   ELSE NoIssue]

\* no code stored (n = 0), or alice's code pending with n - 1 wrong codes
\* answered, for some n of N
InitRedisStore(N) ==
  /\ verificationCodes = [e \in Emails |-> Null]
  /\ \E n \in N :
       IF n = 0
         THEN /\ InitNoCode
              /\ redis = [k \in Keys |-> NoEntry]
         ELSE /\ InitPending(n - 1)
              /\ redis = [k \in Keys |->
                           IF k = get2FAKey("alice@example.com")
                             THEN [value |-> [code |-> "123456",
                                              createdAt |-> 0,
                                              expiresAt |-> 0,
                                              failedAttempts |-> n - 1,
                                              id |-> 1],
                                   expireAt |-> ChallengeTTL]
                             ELSE NoEntry]

\* The Redis router starts with no code stored or with alice's code pending.
Init ==
  /\ InitCommon
  /\ InitRedisStore(0..(MaxFailedAttempts + 1))

\* ---- the clock ------------------------------------------------------------
\* A step of the clock is far longer than a request: every Redis command
\* times out after 5 s (commandTimeout, src/unnamed/part_013:29), so the
\* clock steps between requests.
Tick ==
  /\ \A p \in Procs : pc[p] = "idle"
  /\ now + TickSeconds <= MaxTime
  /\ now' = now + TickSeconds
  /\ UNCHANGED <<verificationCodes, users, redis, pc, loc, last, nreq, nextId,
                 tokens, invalids, issued>>

\* ---- POST /verify-2fa (src/unnamed/part_020:242-343) ----------------------
Verify2FA(p, email, code) ==
  /\ StartRequest(p)
  /\ LET user == findOne(email)
         request == Arrival("verify", email, code,
                            RedisGet(redis, get2FAKey(email)))
     IN  IF ~user.exists
           THEN Reply(p, "UserNotFound", request)
           ELSE IF ~user.is2FAEnabled
                  THEN Reply(p, "TwoFANotEnabled", request)
                  ELSE Await(p, "v_get", request)
  /\ UNCHANGED <<verificationCodes, users, redis, now, nextId, tokens, invalids, issued>>

\* what /verify-2fa does with the record it read (part_020:281-316)
NextStep_CompareFirst(storedData, code) ==
  IF storedData.code # code
    THEN IF storedData.failedAttempts >= MaxFailedAttempts
           THEN "v_lock"
           ELSE "v_fail"
    ELSE "v_del"

NextStep(storedData, code) ==
  LET failedAttempts == storedData.failedAttempts
  IN  IF failedAttempts >= MaxFailedAttempts
        THEN "v_lock"
        ELSE IF storedData.code # code
               THEN "v_fail"
               ELSE "v_del"

VerifyGet(p, ok) ==
  /\ pc[p] = "v_get"
  /\ IF ~ok
       THEN Respond(p, "ServerError", 0)
       ELSE LET storedData == RedisGet(redis, get2FAKey(loc[p].email))
            IN  IF storedData = Null
                  THEN Respond(p, "ChallengeNotFound", 0)
                  ELSE /\ loc' = [loc EXCEPT ![p].stored = storedData]
                       /\ Goto(p, NextStep(storedData, loc[p].code))
  /\ UNCHANGED <<verificationCodes, users, redis, now, nreq, nextId, tokens, invalids, issued>>

VerifyLock(p, ok) ==
  /\ pc[p] = "v_lock"
  /\ IF ~ok
       THEN /\ Respond(p, "ServerError", loc[p].stored.id)
            /\ UNCHANGED redis
       ELSE /\ redis' = RedisDelete(redis, get2FAKey(loc[p].email))
            /\ Respond(p, "LockedOut", loc[p].stored.id)
  /\ UNCHANGED <<verificationCodes, users, now, nreq, nextId, tokens, invalids, issued>>

VerifyFail(p, ok) ==
  /\ pc[p] = "v_fail"
  /\ IF ~ok
       THEN /\ Respond(p, "ServerError", loc[p].stored.id)
            /\ UNCHANGED <<redis, invalids>>
       ELSE LET storedData == loc[p].stored
            IN  /\ redis' = RedisSet(redis, get2FAKey(loc[p].email),
                              [storedData EXCEPT
                                 !.failedAttempts = storedData.failedAttempts + 1],
                              ChallengeTTL)
                /\ invalids' = [invalids EXCEPT ![storedData.id] = @ + 1]
                /\ Respond(p, "InvalidCode", storedData.id)
  /\ UNCHANGED <<verificationCodes, users, now, nreq, nextId, tokens, issued>>

VerifyDel(p, ok) ==
  /\ pc[p] = "v_del"
  /\ IF ~ok
       THEN /\ Respond(p, "ServerError", loc[p].stored.id)
            /\ UNCHANGED redis
       ELSE /\ redis' = RedisDelete(redis, get2FAKey(loc[p].email))
            /\ Goto(p, "v_save")
            /\ UNCHANGED loc
  /\ UNCHANGED <<verificationCodes, users, now, nreq, nextId, tokens, invalids, issued>>

VerifySave(p) ==
  /\ pc[p] = "v_save"
  /\ users' = [users EXCEPT ![loc[p].email].lastLogin = now]
  /\ tokens' = [tokens EXCEPT ![loc[p].stored.id] = @ + 1]
  /\ Respond(p, "Token", loc[p].stored.id)
  /\ UNCHANGED <<verificationCodes, redis, now, nreq, nextId, invalids, issued>>

\* ---- issuing a code: redisService.set(...) then send2FACode(...) ----------
\* The code is drawn just before the call of redisService.set; no other
\* handler sees it before the command runs, so it is drawn in that step.
IssueSet_SendAnyway(p, ok, sendLabel) ==
  IF ~ok
    THEN /\ Goto(p, sendLabel)
         /\ UNCHANGED <<redis, nextId, loc>>
    ELSE \E verificationCode \in GenCodes :
           LET value == [code |-> verificationCode, createdAt |-> now,
                         expiresAt |-> 0, failedAttempts |-> 0, id |-> nextId]
           IN  /\ redis' = RedisSet(redis, get2FAKey(loc[p].email), value,
                                    ChallengeTTL)
               /\ nextId' = nextId + 1
               /\ loc' = [loc EXCEPT ![p].stored = value]
               /\ Goto(p, sendLabel)

IssueSet(p, ok, sendLabel) ==
  IF ~ok
    THEN /\ Respond(p, "ServerError", 0)
         /\ UNCHANGED <<redis, nextId>>
    ELSE \E verificationCode \in GenCodes :
           LET value == [code |-> verificationCode, createdAt |-> now,
                         expiresAt |-> 0, failedAttempts |-> 0, id |-> nextId]
           IN  /\ redis' = RedisSet(redis, get2FAKey(loc[p].email), value,
                                    ChallengeTTL)
               /\ nextId' = nextId + 1
               /\ loc' = [loc EXCEPT ![p].stored = value]
               /\ Goto(p, sendLabel)

IssueSend(p, delivered) ==
  IF delivered
    THEN /\ issued' = [issued EXCEPT ![loc[p].email] =
                         [op |-> loc[p].op, id |-> loc[p].stored.id,
                          code |-> loc[p].stored.code]]
         /\ Respond(p, "Pending", loc[p].stored.id)
    ELSE /\ Respond(p, "ServerError", loc[p].stored.id)
         /\ UNCHANGED issued

\* ---- POST /login (src/unnamed/part_020:101-239) ---------------------------
Login_ActiveFirst(p, email, password) ==
  /\ StartRequest(p)
  /\ LET user == findOne(email)
         request == Arrival("login", email, "",
                            RedisGet(redis, get2FAKey(email)))
     IN  IF ~user.exists
           THEN Reply(p, "InvalidCredentials", request)
           ELSE IF ~user.isActive
                  THEN Reply(p, "AccountDeactivated", request)
                  ELSE IF ~comparePassword(user, password)
                         THEN Reply(p, "InvalidCredentials", request)
                         ELSE IF user.is2FAEnabled
                                THEN Await(p, "l_set", request)
                                ELSE Await(p, "l_save",
                                           [request EXCEPT !.legacy = TRUE])
  /\ UNCHANGED <<verificationCodes, users, redis, now, nextId, tokens, invalids, issued>>

Login_NoActiveCheck(p, email, password) ==
  /\ StartRequest(p)
  /\ LET user == findOne(email)
         request == Arrival("login", email, "",
                            RedisGet(redis, get2FAKey(email)))
     IN  IF ~user.exists
           THEN Reply(p, "InvalidCredentials", request)
           ELSE IF ~comparePassword(user, password)
                  THEN Reply(p, "InvalidCredentials", request)
                  ELSE IF user.is2FAEnabled
                         THEN Await(p, "l_set", request)
                         ELSE Await(p, "l_save",
                                    [request EXCEPT !.legacy = TRUE])
  /\ UNCHANGED <<verificationCodes, users, redis, now, nextId, tokens, invalids, issued>>

Login(p, email, password) ==
  /\ StartRequest(p)
  /\ LET user == findOne(email)
         request == Arrival("login", email, "",
                            RedisGet(redis, get2FAKey(email)))
     IN  IF ~user.exists
           THEN Reply(p, "InvalidCredentials", request)
           ELSE IF ~comparePassword(user, password)
                  THEN Reply(p, "InvalidCredentials", request)
                  ELSE IF ~user.isActive
                         THEN Reply(p, "AccountDeactivated", request)
                         ELSE IF user.is2FAEnabled
                                THEN Await(p, "l_set", request)
                                ELSE Await(p, "l_save",
                                           [request EXCEPT !.legacy = TRUE])
  /\ UNCHANGED <<verificationCodes, users, redis, now, nextId, tokens, invalids, issued>>

LoginSave_Stamp(p) ==
  /\ pc[p] = "l_save"
  /\ users' = [users EXCEPT ![loc[p].email].is2FAEnabled = TRUE,
                            ![loc[p].email].hasBeenPromptedFor2FA = TRUE,
                            ![loc[p].email].lastLogin = now]
  /\ Goto(p, "l_set")
  /\ UNCHANGED loc
  /\ UNCHANGED <<verificationCodes, redis, now, nreq, nextId, tokens, invalids, issued>>

LoginSave(p) ==
  /\ pc[p] = "l_save"
  /\ users' = [users EXCEPT ![loc[p].email].is2FAEnabled = TRUE,
                            ![loc[p].email].hasBeenPromptedFor2FA = TRUE]
  /\ Goto(p, "l_set")
  /\ UNCHANGED loc
  /\ UNCHANGED <<verificationCodes, redis, now, nreq, nextId, tokens, invalids, issued>>

LoginSet(p, ok) ==
  /\ pc[p] = "l_set"
  /\ IssueSet(p, ok, "l_send")
  /\ UNCHANGED <<verificationCodes, users, now, nreq, tokens, invalids, issued>>

LoginSend(p, delivered) ==
  /\ pc[p] = "l_send"
  /\ IssueSend(p, delivered)
  /\ UNCHANGED <<verificationCodes, users, redis, now, nreq, nextId, tokens, invalids>>

\* ---- POST /resend-2fa-code (src/unnamed/part_020:346-412) -----------------
Resend2FACode_NoFlagCheck(p, email) ==
  /\ StartRequest(p)
  /\ LET user == findOne(email)
         request == Arrival("resend", email, "",
                            RedisGet(redis, get2FAKey(email)))
     IN  IF ~user.exists
           THEN Reply(p, "UserNotFound", request)
           ELSE Await(p, "r_set", request)
  /\ UNCHANGED <<verificationCodes, users, redis, now, nextId, tokens, invalids, issued>>

Resend2FACode(p, email) ==
  /\ StartRequest(p)
  /\ LET user == findOne(email)
         request == Arrival("resend", email, "",
                            RedisGet(redis, get2FAKey(email)))
     IN  IF ~user.exists
           THEN Reply(p, "UserNotFound", request)
           ELSE IF ~user.is2FAEnabled
                  THEN Reply(p, "TwoFANotEnabled", request)
                  ELSE Await(p, "r_set", request)
  /\ UNCHANGED <<verificationCodes, users, redis, now, nextId, tokens, invalids, issued>>

ResendSet(p, ok) ==
  /\ pc[p] = "r_set"
  /\ IssueSet(p, ok, "r_send")
  /\ UNCHANGED <<verificationCodes, users, now, nreq, tokens, invalids, issued>>

ResendSend(p, delivered) ==
  /\ pc[p] = "r_send"
  /\ IssueSend(p, delivered)
  /\ UNCHANGED <<verificationCodes, users, redis, now, nreq, nextId, tokens, invalids>>

\* ---- POST /register (src/unnamed/part_020:21-98) --------------------------
\* body('password').isLength({ min: 6 }): a request that fails validateSignup
\* never reaches the handler (src/src/middleware/validation.js:88-90)
validateSignup(password) == Len(password) >= 6

Register(p, email, password) ==
  /\ StartRequest(p)
  /\ validateSignup(password)
  /\ LET existingUser == findOne(email)
         request == Arrival("register", email, "",
                            RedisGet(redis, get2FAKey(email)))
     IN  IF existingUser.exists
           THEN Reply(p, "UserExists", request)
           ELSE Await(p, "g_save", [request EXCEPT !.password = password])
  /\ UNCHANGED <<verificationCodes, users, redis, now, nextId, tokens, invalids, issued>>

\* await user.save(): the unique index on email refuses a second document;
\* an error of sendWelcomeEmail is caught and logged
RegisterSave(p) ==
  /\ pc[p] = "g_save"
  /\ IF users[loc[p].email].exists
       THEN /\ Respond(p, "ServerError", 0)
            /\ UNCHANGED users
       ELSE /\ users' = [users EXCEPT ![loc[p].email] =
                           User(loc[p].password, TRUE, TRUE, TRUE)]
            /\ Goto(p, "g_set")
            /\ UNCHANGED loc
  /\ UNCHANGED <<verificationCodes, redis, now, nreq, nextId, tokens, invalids, issued>>

\* an error of redisService.set is caught and logged (lines 76-81)
RegisterSet(p, ok) ==
  /\ pc[p] = "g_set"
  /\ IF ~ok
       THEN /\ Respond(p, "Pending", 0)
            /\ UNCHANGED <<redis, nextId>>
       ELSE \E verificationCode \in GenCodes :
              LET value == [code |-> verificationCode, createdAt |-> now,
                            expiresAt |-> 0, failedAttempts |-> 0, id |-> nextId]
              IN  /\ redis' = RedisSet(redis, get2FAKey(loc[p].email), value,
                                       ChallengeTTL)
                  /\ nextId' = nextId + 1
                  /\ loc' = [loc EXCEPT ![p].stored = value]
                  /\ Goto(p, "g_send")
  /\ UNCHANGED <<verificationCodes, users, now, nreq, tokens, invalids, issued>>

\* an error of send2FACode is caught and logged too
RegisterSend(p, delivered) ==
  /\ pc[p] = "g_send"
  /\ issued' = IF delivered
                 THEN [issued EXCEPT ![loc[p].email] =
                         [op |-> loc[p].op, id |-> loc[p].stored.id,
                          code |-> loc[p].stored.code]]
                 ELSE issued
  /\ Respond(p, "Pending", loc[p].stored.id)
  /\ UNCHANGED <<verificationCodes, users, redis, now, nreq, nextId, tokens, invalids>>

NextRedis ==
  \/ Tick
  \/ \E p \in Procs, e \in Emails, pw \in Passwords : Login(p, e, pw)
  \/ \E p \in Procs : LoginSave(p)
  \/ \E p \in Procs, ok \in BOOLEAN : LoginSet(p, ok)
  \/ \E p \in Procs, delivered \in BOOLEAN : LoginSend(p, delivered)
  \/ \E p \in Procs, e \in Emails : Resend2FACode(p, e)
  \/ \E p \in Procs, ok \in BOOLEAN : ResendSet(p, ok)
  \/ \E p \in Procs, delivered \in BOOLEAN : ResendSend(p, delivered)
  \/ \E p \in Procs, e \in Emails, c \in SubmitCodes : Verify2FA(p, e, c)
  \/ \E p \in Procs, ok \in BOOLEAN : VerifyGet(p, ok)
  \/ \E p \in Procs, ok \in BOOLEAN : VerifyLock(p, ok)
  \/ \E p \in Procs, ok \in BOOLEAN : VerifyFail(p, ok)
  \/ \E p \in Procs, ok \in BOOLEAN : VerifyDel(p, ok)
  \/ \E p \in Procs : VerifySave(p)

SpecRedis == Init /\ [][NextRedis]_vars

(***************************************************************************)
(* The account operations of the Redis router: /register, /login and       *)
(* /resend-2fa-code, over a collection in which bob may be deactivated.    *)
(***************************************************************************)
InitAccounts ==
  /\ \E active \in BOOLEAN : users = Users0(active)
  /\ InitIdle
  /\ InitRedisStore({0, MaxFailedAttempts})

NextAccounts ==
  \/ Tick
  \/ \E p \in Procs, e \in Emails, pw \in Passwords : Register(p, e, pw)
  \/ \E p \in Procs : RegisterSave(p)
  \/ \E p \in Procs, ok \in BOOLEAN : RegisterSet(p, ok)
  \/ \E p \in Procs, delivered \in BOOLEAN : RegisterSend(p, delivered)
  \/ \E p \in Procs, e \in Emails, pw \in Passwords : Login(p, e, pw)
  \/ \E p \in Procs : LoginSave(p)
  \/ \E p \in Procs, ok \in BOOLEAN : LoginSet(p, ok)
  \/ \E p \in Procs, delivered \in BOOLEAN : LoginSend(p, delivered)
  \/ \E p \in Procs, e \in Emails : Resend2FACode(p, e)
  \/ \E p \in Procs, ok \in BOOLEAN : ResendSet(p, ok)
  \/ \E p \in Procs, delivered \in BOOLEAN : ResendSend(p, delivered)

SpecAccounts == InitAccounts /\ [][NextAccounts]_vars

(***************************************************************************)
(* The earlier Redis router (src/unnamed/part_003): /login is the same,    *)
(* /verify-2fa catches the errors of the store call by call.               *)
(***************************************************************************)
\* storedData = await redisService.get(...) in its own try: an error is
\* answered 500 'Unable to verify code. Please try again.' (lines 167-176)
VerifyGetCaught(p, ok) ==
  /\ pc[p] = "v_get"
  /\ IF ~ok
       THEN Respond(p, "StoreUnavailable", 0)
       ELSE LET storedData == RedisGet(redis, get2FAKey(loc[p].email))
            IN  IF storedData = Null
                  THEN Respond(p, "ChallengeNotFound", 0)
                  ELSE /\ loc' = [loc EXCEPT ![p].stored = storedData]
                       /\ Goto(p, NextStep(storedData, loc[p].code))
  /\ UNCHANGED <<verificationCodes, users, redis, now, nreq, nextId, tokens, invalids, issued>>

\* an error of redisService.delete is logged and the answer is the same
\* (lines 187-196)
VerifyLockCaught(p, ok) ==
  /\ pc[p] = "v_lock"
  /\ redis' = IF ok THEN RedisDelete(redis, get2FAKey(loc[p].email)) ELSE redis
  /\ Respond(p, "LockedOut", loc[p].stored.id)
  /\ UNCHANGED <<verificationCodes, users, now, nreq, nextId, tokens, invalids, issued>>

\* an error of redisService.set is logged and the answer is the same
\* (lines 199-219)
VerifyFailCaught(p, ok) ==
  /\ pc[p] = "v_fail"
  /\ LET storedData == loc[p].stored
     IN  /\ redis' = IF ok
                       THEN RedisSet(redis, get2FAKey(loc[p].email),
                              [storedData EXCEPT
                                 !.failedAttempts = storedData.failedAttempts + 1],
                              ChallengeTTL)
                       ELSE redis
         /\ invalids' = [invalids EXCEPT ![storedData.id] = @ + 1]
         /\ Respond(p, "InvalidCode", storedData.id)
  /\ UNCHANGED <<verificationCodes, users, now, nreq, nextId, tokens, issued>>

\* an error of redisService.delete is logged and the login proceeds
\* (lines 221-226)
VerifyDelCaught(p, ok) ==
  /\ pc[p] = "v_del"
  /\ redis' = IF ok THEN RedisDelete(redis, get2FAKey(loc[p].email)) ELSE redis
  /\ Goto(p, "v_save")
  /\ UNCHANGED loc
  /\ UNCHANGED <<verificationCodes, users, now, nreq, nextId, tokens, invalids, issued>>

NextRedisCaught ==
  \/ Tick
  \/ \E p \in Procs, e \in Emails, pw \in Passwords : Login(p, e, pw)
  \/ \E p \in Procs : LoginSave(p)
  \/ \E p \in Procs, ok \in BOOLEAN : LoginSet(p, ok)
  \/ \E p \in Procs, delivered \in BOOLEAN : LoginSend(p, delivered)
  \/ \E p \in Procs, e \in Emails, c \in SubmitCodes : Verify2FA(p, e, c)
  \/ \E p \in Procs, ok \in BOOLEAN : VerifyGetCaught(p, ok)
  \/ \E p \in Procs, ok \in BOOLEAN : VerifyLockCaught(p, ok)
  \/ \E p \in Procs, ok \in BOOLEAN : VerifyFailCaught(p, ok)
  \/ \E p \in Procs, ok \in BOOLEAN : VerifyDelCaught(p, ok)
  \/ \E p \in Procs : VerifySave(p)

SpecRedisCaught == Init /\ [][NextRedisCaught]_vars

(***************************************************************************)
(* /verify-2fa of the Redis router on its own, with every shape of         *)
(* req.body.code: the route has no validator middleware, only the check    *)
(* of line 246.                                                            *)
(***************************************************************************)
\* values of req.body.code: two well-formed codes, a code of five digits,
\* a code with a letter, and a missing code
CodeInputs == SubmitCodes \cup {"12345", "12345a", ""}

\* const { email, code } = req.body; if (!email || !code) return 400
\* 'Email and verification code are required' (part_020:244-251)
VerifyRequest(p, email, code) ==
  IF code = ""
    THEN /\ StartRequest(p)
         /\ Reply(p, "FieldsRequired",
                  Arrival("verify", email, code,
                          RedisGet(redis, get2FAKey(email))))
         /\ UNCHANGED <<verificationCodes, users, redis, now, nextId, tokens,
                        invalids, issued>>
    ELSE Verify2FA(p, email, code)

NextVerify ==
  \/ Tick
  \/ \E p \in Procs, e \in Emails, c \in CodeInputs : VerifyRequest(p, e, c)
  \/ \E p \in Procs, ok \in BOOLEAN : VerifyGet(p, ok)
  \/ \E p \in Procs, ok \in BOOLEAN : VerifyLock(p, ok)
  \/ \E p \in Procs, ok \in BOOLEAN : VerifyFail(p, ok)
  \/ \E p \in Procs, ok \in BOOLEAN : VerifyDel(p, ok)
  \/ \E p \in Procs : VerifySave(p)

SpecVerify == Init /\ [][NextVerify]_vars

(***************************************************************************)
(* The Redis router with the e-mail as the client wrote it.  /login runs   *)
(* validateLogin, whose normalizeEmail() lower-cases req.body.email;       *)
(* /verify-2fa and /resend-2fa-code have no validator.  The query of       *)
(* User.findOne is cast by the schema (lowercase: true); user.email is the *)
(* stored, lower-case address.                                             *)
(***************************************************************************)
RawEmails == {"alice@example.com", "Alice@Example.com", "BOB@example.com"}

UpperCase == "ABCDEFGHIJKLMNOPQRSTUVWXYZ"
LowerCase == "abcdefghijklmnopqrstuvwxyz"

\* String.prototype.toLowerCase on one character
toLowerCaseChar(c) ==
  IF \E i \in 1..Len(UpperCase) : SubSeq(UpperCase, i, i) = c
    THEN LET i == CHOOSE i \in 1..Len(UpperCase) : SubSeq(UpperCase, i, i) = c
         IN  SubSeq(LowerCase, i, i)
    ELSE c

RECURSIVE toLowerCase(_)
toLowerCase(s) ==
  IF s = ""
    THEN ""
    ELSE toLowerCaseChar(SubSeq(s, 1, 1)) \o toLowerCase(SubSeq(s, 2, Len(s)))

\* toLowerCase of every address a client may write, computed once
Lowered == [s \in Emails \cup RawEmails |-> toLowerCase(s)]

\* the keys of every address a client may write
RawKeys == {get2FAKey(e) : e \in Emails \cup RawEmails}

\* POST /login: validateLogin (validation.js:94-103), then the handler
RawLogin(p, email, password) == Login(p, Lowered[email], password)

\* POST /resend-2fa-code (part_020:346-412): findOne casts the query; the
\* code is stored and sent under user.email
RawResend2FACode(p, email) == Resend2FACode(p, Lowered[email])

\* POST /verify-2fa (part_020:242-271): findOne casts the query; the record
\* is read, written and deleted under get2FAKey(email) of req.body.email
RawVerify2FA(p, email, code) ==
  /\ StartRequest(p)
  /\ LET user == findOne(Lowered[email])
         request == [Arrival("verify", Lowered[email], code,
                             RedisGet(redis,
                                      get2FAKey(Lowered[email])))
                       EXCEPT !.email = email]
     IN  IF ~user.exists
           THEN Reply(p, "UserNotFound", request)
           ELSE IF ~user.is2FAEnabled
                  THEN Reply(p, "TwoFANotEnabled", request)
                  ELSE Await(p, "v_get", request)
  /\ UNCHANGED <<verificationCodes, users, redis, now, nextId, tokens, invalids, issued>>

InitRaw ==
  /\ InitCommon
  /\ verificationCodes = [e \in Emails |-> Null]
  /\ \E n \in {0, 1, MaxFailedAttempts + 1} :
       /\ IF n = 0 THEN InitNoCode ELSE InitPending(n - 1)
       /\ redis = [k \in RawKeys |->
                     IF n > 0 /\ k = get2FAKey("alice@example.com")
                       THEN [value |-> [code |-> "123456", createdAt |-> 0,
                                        expiresAt |-> 0,
                                        failedAttempts |-> n - 1,
                                        id |-> 1],
                             expireAt |-> ChallengeTTL]
                       ELSE NoEntry]

NextRaw ==
  \/ Tick
  \/ \E p \in Procs, e \in RawEmails, pw \in Passwords : RawLogin(p, e, pw)
  \/ \E p \in Procs : LoginSave(p)
  \/ \E p \in Procs, ok \in BOOLEAN : LoginSet(p, ok)
  \/ \E p \in Procs, delivered \in BOOLEAN : LoginSend(p, delivered)
  \/ \E p \in Procs, e \in RawEmails : RawResend2FACode(p, e)
  \/ \E p \in Procs, ok \in BOOLEAN : ResendSet(p, ok)
  \/ \E p \in Procs, delivered \in BOOLEAN : ResendSend(p, delivered)
  \/ \E p \in Procs, e \in RawEmails, c \in SubmitCodes : RawVerify2FA(p, e, c)
  \/ \E p \in Procs, ok \in BOOLEAN : VerifyGet(p, ok)
  \/ \E p \in Procs, ok \in BOOLEAN : VerifyLock(p, ok)
  \/ \E p \in Procs, ok \in BOOLEAN : VerifyFail(p, ok)
  \/ \E p \in Procs, ok \in BOOLEAN : VerifyDel(p, ok)
  \/ \E p \in Procs : VerifySave(p)

SpecRaw == InitRaw /\ [][NextRaw]_vars

(***************************************************************************)
(* The Redis router with the codes as generateVerificationCode makes them  *)
(* and req.body.code as a JSON value, a string or a number.                *)
(***************************************************************************)
\* Math.random() * 900000, in units of 1 / RandomScale: the least values,
\* the value that gives 123456, and the greatest value below 900000
RandomDraws ==
  {0, 1, (123456 - 100000) * RandomScale, 900000 * RandomScale - 1}

\* Number.prototype.toString for a natural number
RECURSIVE toString(_)
toString(n) ==
  LET digit == SubSeq("0123456789", (n % 10) + 1, (n % 10) + 1)
  IN  IF n < 10 THEN digit ELSE toString(n \div 10) \o digit

\* Math.floor(100000 + Math.random() * 900000).toString() (part_020:13-15)
generateVerificationCode_NoOffset(random) ==
  toString(random \div RandomScale)

generateVerificationCode(random) ==
  toString(100000 + random \div RandomScale)

\* Number(string) for a string of decimal digits
RECURSIVE ToNumber(_)
ToNumber(s) ==
  IF s = ""
    THEN 0
    ELSE LET d == SubSeq(s, Len(s), Len(s))
             v == CHOOSE v \in 0..9 : SubSeq("0123456789", v + 1, v + 1) = d
         IN  10 * ToNumber(SubSeq(s, 1, Len(s) - 1)) + v

\* JSON values of req.body.code
JsString(s) == [type |-> "string", str |-> s, num |-> 0]
JsNumber(n) == [type |-> "number", str |-> "", num |-> n]

\* a !== b: different when the types differ
StrictNotEqual(a, b) == a.type # b.type \/ a # b

\* the codes the generator can draw here, computed once
DrawnCodes == {generateVerificationCode(random) : random \in RandomDraws}

\* what a client sends: a drawn code as a string or as a number
JsonCodes ==
  {JsString(c) : c \in DrawnCodes} \cup {JsNumber(ToNumber(c)) : c \in DrawnCodes}

\* /login from the generation of the code to redisService.set
\* (part_020:138-153 and 195-209)
DrawnLoginSet(p, ok, random) ==
  /\ pc[p] = "l_set"
  /\ IF ~ok
       THEN /\ Respond(p, "ServerError", 0)
            /\ UNCHANGED <<redis, nextId>>
       ELSE LET verificationCode == generateVerificationCode(random)
                value == [code |-> verificationCode, createdAt |-> now,
                          expiresAt |-> 0, failedAttempts |-> 0, id |-> nextId]
            IN  /\ redis' = RedisSet(redis, get2FAKey(loc[p].email), value,
                                     ChallengeTTL)
                /\ nextId' = nextId + 1
                /\ loc' = [loc EXCEPT ![p].stored = value]
                /\ Goto(p, "l_send")
  /\ UNCHANGED <<verificationCodes, users, now, nreq, tokens, invalids, issued>>

\* POST /verify-2fa up to the await of redisService.get (part_020:242-271)
JsonVerify2FA(p, email, code) ==
  /\ StartRequest(p)
  /\ LET user == findOne(email)
         request == [Arrival("verify", email, "",
                             RedisGet(redis, get2FAKey(email)))
                       EXCEPT !.code = code]
     IN  IF ~user.exists
           THEN Reply(p, "UserNotFound", request)
           ELSE IF ~user.is2FAEnabled
                  THEN Reply(p, "TwoFANotEnabled", request)
                  ELSE Await(p, "v_get", request)
  /\ UNCHANGED <<verificationCodes, users, redis, now, nextId, tokens, invalids, issued>>

\* the record read, and storedData.code !== code (part_020:271-292)
JsonVerifyGet(p, ok) ==
  /\ pc[p] = "v_get"
  /\ IF ~ok
       THEN Respond(p, "ServerError", 0)
       ELSE LET storedData == RedisGet(redis, get2FAKey(loc[p].email))
            IN  IF storedData = Null
                  THEN Respond(p, "ChallengeNotFound", 0)
                  ELSE /\ loc' = [loc EXCEPT ![p].stored = storedData]
                       /\ Goto(p, IF storedData.failedAttempts >= MaxFailedAttempts
                                    THEN "v_lock"
                                    ELSE IF StrictNotEqual(JsString(storedData.code),
                                                           loc[p].code)
                                           THEN "v_fail"
                                           ELSE "v_del")
  /\ UNCHANGED <<verificationCodes, users, redis, now, nreq, nextId, tokens, invalids, issued>>

InitDrawn ==
  /\ InitCommon
  /\ InitRedisStore({0, MaxFailedAttempts + 1})

NextDrawn ==
  \/ \E p \in Procs, e \in Emails, pw \in Passwords : Login(p, e, pw)
  \/ \E p \in Procs : LoginSave(p)
  \/ \E p \in Procs, ok \in BOOLEAN, random \in RandomDraws :
       DrawnLoginSet(p, ok, random)
  \/ \E p \in Procs, delivered \in BOOLEAN : LoginSend(p, delivered)
  \/ \E p \in Procs, e \in Emails, c \in JsonCodes : JsonVerify2FA(p, e, c)
  \/ \E p \in Procs, ok \in BOOLEAN : JsonVerifyGet(p, ok)
  \/ \E p \in Procs, ok \in BOOLEAN : VerifyLock(p, ok)
  \/ \E p \in Procs, ok \in BOOLEAN : VerifyFail(p, ok)
  \/ \E p \in Procs, ok \in BOOLEAN : VerifyDel(p, ok)
  \/ \E p \in Procs : VerifySave(p)

SpecDrawn == InitDrawn /\ [][NextDrawn]_vars

(***************************************************************************)
(* The Map router (src/src/routes/auth.js): codes live in the in-process   *)
(* Map verificationCodes; everything between two awaits runs in one step.  *)
(***************************************************************************)
NowMs == now * 1000

\* storedCode.failedAttempts || 0
OrZero(x) == IF x = Undefined THEN 0 ELSE x

\* { code, expiresAt: Date.now() + 10 * 60 * 1000, userId }
MapEntry(verificationCode, id) ==
  [code |-> verificationCode, createdAt |-> 0,
   expiresAt |-> NowMs + 10 * 60 * 1000,
   failedAttempts |-> Undefined, id |-> id]

InitMap ==
  /\ InitCommon
  /\ redis = [k \in Keys |-> NoEntry]
  /\ \E n \in 0..(MaxFailedAttempts + 1) :
       IF n = 0
         THEN /\ InitNoCode
              /\ verificationCodes = [e \in Emails |-> Null]
         ELSE /\ InitPending(n - 1)
              /\ verificationCodes = [e \in Emails |->
                   IF e = "alice@example.com"
                     THEN [MapEntry("123456", 1) EXCEPT
                             !.failedAttempts = IF n = 1 THEN Undefined ELSE n - 1]
                     ELSE Null]

\* setInterval(..., 60 * 60 * 1000): the hourly sweep of expired codes
MapSweep ==
  /\ \E e \in Emails :
       verificationCodes[e] # Null /\ NowMs > verificationCodes[e].expiresAt
  /\ verificationCodes' = [e \in Emails |->
       IF verificationCodes[e] # Null /\ NowMs > verificationCodes[e].expiresAt
         THEN Null
         ELSE verificationCodes[e]]
  /\ UNCHANGED <<users, redis, now, pc, loc, last, nreq, nextId, tokens,
                 invalids, issued>>

\* POST /login (src/src/routes/auth.js:29-134)
MapLogin(p, email, password) ==
  /\ StartRequest(p)
  /\ LET user == findOne(email)
         request == Arrival("login", email, "", verificationCodes[email])
     IN  IF ~user.exists \/ ~comparePassword(user, password)
           THEN Reply(p, "InvalidCredentials", request)
           ELSE IF ~user.isActive
                  THEN Reply(p, "AccountDeactivated", request)
                  ELSE IF user.is2FAEnabled
                         THEN Await(p, "ml_set", request)
                         ELSE IF ~user.is2FAEnabled /\ ~user.hasBeenPromptedFor2FA
                                THEN Reply(p, "Token", request)
                                ELSE Await(p, "ml_save", request)
  /\ UNCHANGED <<users, redis, verificationCodes, now, nextId, tokens,
                 invalids, issued>>

\* verificationCodes.set(user.email, {...}), then the await of send2FACode
MapIssueSet(p, sendLabel) ==
  \E verificationCode \in GenCodes :
    LET entry == MapEntry(verificationCode, nextId)
    IN  /\ verificationCodes' = [verificationCodes EXCEPT ![loc[p].email] = entry]
        /\ nextId' = nextId + 1
        /\ loc' = [loc EXCEPT ![p].stored = entry]
        /\ Goto(p, sendLabel)

MapLoginSet(p) ==
  /\ pc[p] = "ml_set"
  /\ MapIssueSet(p, "ml_send")
  /\ UNCHANGED <<users, redis, now, nreq, tokens, invalids, issued>>

MapLoginSend(p, delivered) ==
  /\ pc[p] = "ml_send"
  /\ IssueSend(p, delivered)
  /\ UNCHANGED <<users, redis, verificationCodes, now, nreq, nextId, tokens,
                 invalids>>

MapLoginSave(p) ==
  /\ pc[p] = "ml_save"
  /\ users' = [users EXCEPT ![loc[p].email].lastLogin = now]
  /\ Respond(p, "Token", 0)
  /\ UNCHANGED <<redis, verificationCodes, now, nreq, nextId, tokens,
                 invalids, issued>>

\* POST /verify-2fa (src/src/routes/auth.js:179-267)
MapVerify2FA(p, email, code) ==
  /\ StartRequest(p)
  /\ LET user == findOne(email)
         request == Arrival("verify", email, code, verificationCodes[email])
     IN  IF ~user.exists
           THEN Reply(p, "UserNotFound", request)
           ELSE IF ~user.is2FAEnabled
                  THEN Reply(p, "TwoFANotEnabled", request)
                  ELSE Await(p, "mv_code", request)
  /\ UNCHANGED <<users, redis, verificationCodes, now, nextId, tokens,
                 invalids, issued>>

\* lines 206-243 run without an await in between
MapVerifyCode(p) ==
  /\ pc[p] = "mv_code"
  /\ LET email == loc[p].email
         code == loc[p].code
         storedCode == verificationCodes[email]
         request == [loc[p] EXCEPT !.stored = storedCode]
         failedAttempts == OrZero(storedCode.failedAttempts)
     IN  IF storedCode = Null
           THEN /\ RespondWith(p, "ChallengeNotFound", request)
                /\ UNCHANGED <<verificationCodes, invalids>>
           ELSE IF NowMs > storedCode.expiresAt
             THEN /\ verificationCodes' = [verificationCodes EXCEPT ![email] = Null]
                  /\ RespondWith(p, "CodeExpired", request)
                  /\ UNCHANGED invalids
           ELSE IF storedCode.code # code
             THEN IF failedAttempts >= MaxFailedAttempts
                    THEN /\ verificationCodes' =
                              [verificationCodes EXCEPT ![email] = Null]
                         /\ RespondWith(p, "LockedOut", request)
                         /\ UNCHANGED invalids
                    ELSE /\ verificationCodes' =
                              [verificationCodes EXCEPT ![email] =
                                 [storedCode EXCEPT !.failedAttempts = failedAttempts + 1]]
                         /\ invalids' = [invalids EXCEPT ![storedCode.id] = @ + 1]
                         /\ RespondWith(p, "InvalidCode", request)
           ELSE /\ verificationCodes' = [verificationCodes EXCEPT ![email] = Null]
                /\ loc' = [loc EXCEPT ![p] = request]
                /\ Goto(p, "mv_save")
                /\ UNCHANGED invalids
  /\ UNCHANGED <<users, redis, now, nreq, nextId, tokens, issued>>

MapVerifySave(p) ==
  /\ pc[p] = "mv_save"
  /\ users' = [users EXCEPT ![loc[p].email].lastLogin = now]
  /\ tokens' = [tokens EXCEPT ![loc[p].stored.id] = @ + 1]
  /\ Respond(p, "Token", loc[p].stored.id)
  /\ UNCHANGED <<redis, verificationCodes, now, nreq, nextId, invalids, issued>>

\* POST /resend-2fa-code (src/src/routes/auth.js:270-325)
MapResend2FACode(p, email) ==
  /\ StartRequest(p)
  /\ LET user == findOne(email)
         request == Arrival("resend", email, "", verificationCodes[email])
     IN  IF ~user.exists
           THEN Reply(p, "UserNotFound", request)
           ELSE IF ~user.is2FAEnabled
                  THEN Reply(p, "TwoFANotEnabled", request)
                  ELSE Await(p, "mr_set", request)
  /\ UNCHANGED <<users, redis, verificationCodes, now, nextId, tokens,
                 invalids, issued>>

MapResendSet(p) ==
  /\ pc[p] = "mr_set"
  /\ MapIssueSet(p, "mr_send")
  /\ UNCHANGED <<users, redis, now, nreq, tokens, invalids, issued>>

MapResendSend(p, delivered) ==
  /\ pc[p] = "mr_send"
  /\ IssueSend(p, delivered)
  /\ UNCHANGED <<users, redis, verificationCodes, now, nreq, nextId, tokens,
                 invalids>>

\* POST /enable-email-2fa (src/src/routes/auth.js:328-360)
MapEnable2FA(p, email) ==
  /\ StartRequest(p)
  /\ LET user == findOne(email)
         request == Arrival("enable", email, "", verificationCodes[email])
     IN  IF ~user.exists
           THEN Reply(p, "UserNotFound", request)
           ELSE Await(p, "me_save", request)
  /\ UNCHANGED <<users, redis, verificationCodes, now, nextId, tokens,
                 invalids, issued>>

MapEnableSave(p) ==
  /\ pc[p] = "me_save"
  /\ users' = [users EXCEPT ![loc[p].email].is2FAEnabled = TRUE,
                            ![loc[p].email].hasBeenPromptedFor2FA = TRUE]
  /\ Respond(p, "Enabled", 0)
  /\ UNCHANGED <<redis, verificationCodes, now, nreq, nextId, tokens,
                 invalids, issued>>

\* POST /disable-2fa (src/src/routes/auth.js:363-403)
MapDisable2FA(p, email, password) ==
  /\ StartRequest(p)
  /\ LET user == findOne(email)
         request == Arrival("disable", email, "", verificationCodes[email])
     IN  IF ~user.exists
           THEN Reply(p, "UserNotFound", request)
           ELSE IF ~comparePassword(user, password)
                  THEN Reply(p, "InvalidPassword", request)
                  ELSE Await(p, "md_save", request)
  /\ UNCHANGED <<users, redis, verificationCodes, now, nextId, tokens,
                 invalids, issued>>

MapDisableSave(p) ==
  /\ pc[p] = "md_save"
  /\ users' = [users EXCEPT ![loc[p].email].is2FAEnabled = FALSE]
  /\ Respond(p, "Disabled", 0)
  /\ UNCHANGED <<redis, verificationCodes, now, nreq, nextId, tokens,
                 invalids, issued>>

NextMap ==
  \/ Tick
  \/ MapSweep
  \/ \E p \in Procs, e \in Emails, pw \in Passwords : MapLogin(p, e, pw)
  \/ \E p \in Procs : MapLoginSet(p)
  \/ \E p \in Procs, delivered \in BOOLEAN : MapLoginSend(p, delivered)
  \/ \E p \in Procs : MapLoginSave(p)
  \/ \E p \in Procs, e \in Emails, c \in SubmitCodes : MapVerify2FA(p, e, c)
  \/ \E p \in Procs : MapVerifyCode(p)
  \/ \E p \in Procs : MapVerifySave(p)
  \/ \E p \in Procs, e \in Emails : MapResend2FACode(p, e)
  \/ \E p \in Procs : MapResendSet(p)
  \/ \E p \in Procs, delivered \in BOOLEAN : MapResendSend(p, delivered)
  \/ \E p \in Procs, e \in Emails : MapEnable2FA(p, e)
  \/ \E p \in Procs : MapEnableSave(p)
  \/ \E p \in Procs, e \in Emails, pw \in Passwords : MapDisable2FA(p, e, pw)
  \/ \E p \in Procs : MapDisableSave(p)

SpecMap == InitMap /\ [][NextMap]_vars

(***************************************************************************)
(* The account operations of the Map router: /register, /login and         *)
(* /disable-2fa.                                                           *)
(***************************************************************************)
\* POST /register (src/src/routes/auth.js:137-176)
MapRegister(p, email, password) ==
  /\ StartRequest(p)
  /\ validateSignup(password)
  /\ LET existingUser == findOne(email)
         request == Arrival("register", email, "", verificationCodes[email])
     IN  IF existingUser.exists
           THEN Reply(p, "UserExists", request)
           ELSE Await(p, "mg_save", [request EXCEPT !.password = password])
  /\ UNCHANGED <<users, redis, verificationCodes, now, nextId, tokens,
                 invalids, issued>>

\* await user.save() of new User({ name, email, password }): is2FAEnabled and
\* hasBeenPromptedFor2FA take the defaults of the schema; the answer is 201
\* with generateToken(user._id)
MapRegisterSave(p) ==
  /\ pc[p] = "mg_save"
  /\ IF users[loc[p].email].exists
       THEN /\ Respond(p, "ServerError", 0)
            /\ UNCHANGED users
       ELSE /\ users' = [users EXCEPT ![loc[p].email] =
                           User(loc[p].password, TRUE, FALSE, FALSE)]
            /\ Respond(p, "Token", 0)
  /\ UNCHANGED <<redis, verificationCodes, now, nreq, nextId, tokens,
                 invalids, issued>>

NextMapAccounts ==
  \/ Tick
  \/ \E p \in Procs, e \in Emails, pw \in Passwords : MapRegister(p, e, pw)
  \/ \E p \in Procs : MapRegisterSave(p)
  \/ \E p \in Procs, e \in Emails, pw \in Passwords : MapLogin(p, e, pw)
  \/ \E p \in Procs : MapLoginSet(p)
  \/ \E p \in Procs, delivered \in BOOLEAN : MapLoginSend(p, delivered)
  \/ \E p \in Procs : MapLoginSave(p)
  \/ \E p \in Procs, e \in Emails, pw \in Passwords : MapDisable2FA(p, e, pw)
  \/ \E p \in Procs : MapDisableSave(p)

SpecMapAccounts == InitMap /\ [][NextMapAccounts]_vars

(***************************************************************************)
(* Session tokens (src/src/utils/auth.js, src/src/utils/token.js) and the  *)
(* auth middleware (src/src/middleware/auth.js).  A token is the payload   *)
(* and whether its signature was made with config.jwt.secret; the userId   *)
(* is written as the e-mail of the document it names.                      *)
(***************************************************************************)
Jwts ==
  [signed : BOOLEAN,
   exp : {0, TickSeconds, MaxTime + TickSeconds},
   iss : {"reflective-pomodoro", "pomodoro-app"},
   aud : {"reflective-pomodoro-users", ""},
   userId : Emails]

\* no Authorization header
NoJwt == [signed |-> FALSE, exp |-> 0, iss |-> "", aud |-> "", userId |-> ""]

\* jwt.verify(token, secret, options): the signature, then exp against the
\* clock, then the audience and the issuer when the options name them; the
\* result is "" or the name of the error thrown
jwtVerify(token, options) ==
  IF ~token.signed
    THEN "JsonWebTokenError"
    ELSE IF now >= token.exp
           THEN "TokenExpiredError"
           ELSE IF options.audience # "" /\ token.aud # options.audience
                  THEN "JsonWebTokenError"
                  ELSE IF options.issuer # "" /\ token.iss # options.issuer
                         THEN "JsonWebTokenError"
                         ELSE ""

\* verifyToken of utils/auth.js: the decoded payload, or Error('Invalid
\* token') for every error of jwt.verify
verifyToken(token) ==
  IF jwtVerify(token, [issuer |-> "reflective-pomodoro",
                       audience |-> "reflective-pomodoro-users"]) = ""
    THEN "decoded"
    ELSE "Invalid token"

\* TokenUtils.verifyToken of utils/token.js: jwt.verify without options, and
\* one message per error name
TokenUtilsVerifyToken(token) ==
  LET name == jwtVerify(token, [issuer |-> "", audience |-> ""])
  IN  CASE name = "" -> "decoded"
        [] name = "TokenExpiredError" -> "Token expired"
        [] name = "JsonWebTokenError" -> "Invalid token"
        [] OTHER -> "Token verification failed"

\* a call with a token: what the properties know about it
TokenCall(op, token) ==
  [Loc0 EXCEPT !.op = op, !.email = token.userId, !.at = now]
    @@ [token |-> token]

VerifyTokenCall(p, token) ==
  /\ StartRequest(p)
  /\ Reply(p, verifyToken(token), TokenCall("verifyToken", token))
  /\ UNCHANGED <<verificationCodes, users, redis, now, nextId, tokens,
                 invalids, issued>>

TokenUtilsVerifyTokenCall(p, token) ==
  /\ StartRequest(p)
  /\ Reply(p, TokenUtilsVerifyToken(token),
           TokenCall("TokenUtils.verifyToken", token))
  /\ UNCHANGED <<verificationCodes, users, redis, now, nextId, tokens,
                 invalids, issued>>

\* the middleware up to the await of User.findById (middleware/auth.js:4-16)
auth(p, token) ==
  /\ StartRequest(p)
  /\ LET request == TokenCall("auth", token)
     IN  IF token = NoJwt
           THEN Reply(p, "Access denied. No token provided.", request)
           ELSE IF verifyToken(token) # "decoded"
                  THEN Reply(p, "Token is invalid.", request)
                  ELSE Await(p, "a_find", request)
  /\ UNCHANGED <<verificationCodes, users, redis, now, nextId, tokens,
                 invalids, issued>>

(***************************************************************************)
(* The auth middleware while accounts change.  No route of the repository  *)
(* deactivates or removes a user: isActive is set, and documents are       *)
(* removed, by whoever administers the collection.                         *)
(***************************************************************************)
\* isActive of a document is set to false
DeactivateAccount(email) ==
  /\ users[email].exists
  /\ users[email].isActive
  /\ users' = [users EXCEPT ![email].isActive = FALSE]
  /\ UNCHANGED <<verificationCodes, redis, now, pc, loc, last, nreq, nextId,
                 tokens, invalids, issued>>

\* a document is removed from the collection
DeleteAccount(email) ==
  /\ users[email].exists
  /\ users' = [users EXCEPT ![email] = NoUser]
  /\ UNCHANGED <<verificationCodes, redis, now, pc, loc, last, nreq, nextId,
                 tokens, invalids, issued>>

authFind_NoActiveCheck(p) ==
  /\ pc[p] = "a_find"
  /\ LET user == users[loc[p].email]
     IN  IF ~user.exists
           THEN Respond(p, "Token is invalid. User not found.", 0)
           ELSE Respond(p, "next", 0)
  /\ UNCHANGED <<verificationCodes, users, redis, now, nreq, nextId, tokens,
                 invalids, issued>>

\* after User.findById(decoded.userId) (middleware/auth.js:16-40)
authFind(p) ==
  /\ pc[p] = "a_find"
  /\ LET user == users[loc[p].email]
     IN  IF ~user.exists
           THEN Respond(p, "Token is invalid. User not found.", 0)
           ELSE IF ~user.isActive
                  THEN Respond(p, "Account is deactivated.", 0)
                  ELSE Respond(p, "next", 0)
  /\ UNCHANGED <<verificationCodes, users, redis, now, nreq, nextId, tokens,
                 invalids, issued>>

InitToken ==
  /\ \E active \in BOOLEAN : users = Users0(active)
  /\ InitIdle
  /\ InitRedisStore({0})

NextToken ==
  \/ Tick
  \/ \E p \in Procs, token \in Jwts : VerifyTokenCall(p, token)
  \/ \E p \in Procs, token \in Jwts : TokenUtilsVerifyTokenCall(p, token)
  \/ \E p \in Procs, token \in Jwts \cup {NoJwt} : auth(p, token)
  \/ \E p \in Procs : authFind(p)

SpecToken == InitToken /\ [][NextToken]_vars

NextAuth ==
  \/ Tick
  \/ \E e \in Emails : DeactivateAccount(e)
  \/ \E e \in Emails : DeleteAccount(e)
  \/ \E p \in Procs, token \in Jwts \cup {NoJwt} : auth(p, token)
  \/ \E p \in Procs : authFind(p)

SpecAuth == InitToken /\ [][NextAuth]_vars

(***************************************************************************)
(* The response cache (src/src/config/security.js): cacheMiddleware in     *)
(* front of a handler that answers with data of the authenticated user,    *)
(* as the /api/settings and /api/reflections routes it is meant for do.    *)
(* The variable redis is here the cache, by key.                           *)
(***************************************************************************)
Methods == {"GET", "PUT"}
Urls == {"/api/settings", "/api/reflections"}
CacheUsers == {"alice@example.com", "bob@example.com"}
StatusCodes == {200, 404}

NoBody == [owner |-> "", url |-> ""]

\* what the handler answers with res.json for req.user on this route
HandlerData(user, url) == [owner |-> user, url |-> url]

\* const cacheKey = `${req.originalUrl}`
cacheKey(originalUrl) == originalUrl

\* a request behind the auth middleware
CacheCall(method, originalUrl, user) ==
  [Loc0 EXCEPT !.op = method, !.email = user, !.at = now]
    @@ [url |-> originalUrl, body |-> NoBody, statusCode |-> 0]

\* cacheMiddleware up to the await of getCached (security.js:167-177)
cacheMiddleware(p, method, originalUrl, user) ==
  /\ StartRequest(p)
  /\ Await(p, IF method # "GET" THEN "c_next" ELSE "c_get",
           CacheCall(method, originalUrl, user))
  /\ UNCHANGED <<verificationCodes, users, redis, now, nextId, tokens,
                 invalids, issued>>

\* getCached(key): null without a client or on an error, else the parsed
\* value (security.js:102-114); a hit is answered with res.json(cached)
\* (177-181), otherwise res.json is wrapped and next() is called (186-201)
CacheGet(p, available) ==
  /\ pc[p] = "c_get"
  /\ LET cached == IF available
                     THEN RedisGet(redis, cacheKey(loc[p].url))
                     ELSE Null
     IN  IF cached # Null
           THEN /\ last' = [kind |-> "cached", id |-> 0,
                            req |-> [loc[p] EXCEPT !.body = cached,
                                                   !.statusCode = 200]]
                /\ pc' = [pc EXCEPT ![p] = "idle"]
                /\ loc' = [loc EXCEPT ![p] = Loc0]
           ELSE /\ Goto(p, "c_wrapped")
                /\ UNCHANGED loc
  /\ UNCHANGED <<verificationCodes, users, redis, now, nreq, nextId, tokens,
                 invalids, issued>>

\* the handler of a request that is not a GET: res.json is the original
CacheNext(p, statusCode) ==
  /\ pc[p] = "c_next"
  /\ last' = [kind |-> "handler", id |-> 0,
              req |-> [loc[p] EXCEPT
                         !.body = HandlerData(loc[p].email, loc[p].url),
                         !.statusCode = statusCode]]
  /\ pc' = [pc EXCEPT ![p] = "idle"]
  /\ loc' = [loc EXCEPT ![p] = Loc0]
  /\ UNCHANGED <<verificationCodes, users, redis, now, nreq, nextId, tokens,
                 invalids, issued>>

\* the handler of a GET calls the wrapped res.json (security.js:189-198):
\* a 2xx starts setCached without awaiting it, and the answer is sent
CacheJson(p, statusCode) ==
  /\ pc[p] = "c_wrapped"
  /\ LET data == HandlerData(loc[p].email, loc[p].url)
         answered == [loc[p] EXCEPT !.body = data, !.statusCode = statusCode]
     IN  /\ last' = [kind |-> "handler", id |-> 0, req |-> answered]
         /\ IF statusCode >= 200 /\ statusCode < 300
              THEN /\ pc' = [pc EXCEPT ![p] = "c_set"]
                   /\ loc' = [loc EXCEPT ![p] = answered]
              ELSE /\ pc' = [pc EXCEPT ![p] = "idle"]
                   /\ loc' = [loc EXCEPT ![p] = Loc0]
  /\ UNCHANGED <<verificationCodes, users, redis, now, nreq, nextId, tokens,
                 invalids, issued>>

\* setCached(key, value, ttl): setex, or false without a client or on an
\* error (security.js:119-129)
CacheSet(p, available) ==
  /\ pc[p] = "c_set"
  /\ redis' = IF available
                THEN RedisSet(redis, cacheKey(loc[p].url), loc[p].body, CacheTTL)
                ELSE redis
  /\ pc' = [pc EXCEPT ![p] = "idle"]
  /\ loc' = [loc EXCEPT ![p] = Loc0]
  /\ UNCHANGED <<verificationCodes, users, now, last, nreq, nextId, tokens,
                 invalids, issued>>

InitCache ==
  /\ InitCommon
  /\ InitNoCode
  /\ verificationCodes = [e \in Emails |-> Null]
  /\ redis = [k \in {cacheKey(u) : u \in Urls} |-> NoEntry]

NextCache ==
  \/ Tick
  \/ \E p \in Procs, method \in Methods, u \in Urls, user \in CacheUsers :
       cacheMiddleware(p, method, u, user)
  \/ \E p \in Procs, available \in BOOLEAN : CacheGet(p, available)
  \/ \E p \in Procs, statusCode \in StatusCodes : CacheNext(p, statusCode)
  \/ \E p \in Procs, statusCode \in StatusCodes : CacheJson(p, statusCode)
  \/ \E p \in Procs, available \in BOOLEAN : CacheSet(p, available)

SpecCache == InitCache /\ [][NextCache]_vars

(***************************************************************************)
(* The stub router (src/unnamed/part_016): /login asks for a second factor *)
(* but stores and sends no code, and /verify-2fa is a TODO.                *)
(***************************************************************************)
InitStub ==
  /\ InitCommon
  /\ InitNoCode
  /\ redis = [k \in Keys |-> NoEntry]
  /\ verificationCodes = [e \in Emails |-> Null]

\* POST /login (src/unnamed/part_016:9-91)
StubLogin(p, email, password) ==
  /\ StartRequest(p)
  /\ LET user == findOne(email)
         request == Arrival("login", email, "", Null)
     IN  IF ~user.exists \/ ~comparePassword(user, password)
           THEN Reply(p, "InvalidCredentials", request)
           ELSE IF ~user.isActive
                  THEN Reply(p, "AccountDeactivated", request)
                  ELSE IF user.is2FAEnabled
                         THEN Reply(p, "Pending", request)
                         ELSE IF ~user.is2FAEnabled /\ ~user.hasBeenPromptedFor2FA
                                THEN Reply(p, "Token", request)
                                ELSE Await(p, "sl_save", request)
  /\ UNCHANGED <<users, redis, verificationCodes, now, nextId, tokens,
                 invalids, issued>>

StubLoginSave(p) ==
  /\ pc[p] = "sl_save"
  /\ users' = [users EXCEPT ![loc[p].email].lastLogin = now]
  /\ Respond(p, "Token", 0)
  /\ UNCHANGED <<redis, verificationCodes, now, nreq, nextId, tokens,
                 invalids, issued>>

\* POST /verify-2fa (src/unnamed/part_016:148-192)
StubVerify2FA(p, email, token) ==
  /\ StartRequest(p)
  /\ LET user == findOne(email)
         request == Arrival("verify", email, token, Null)
         isTokenValid == TRUE
     IN  IF ~user.exists
           THEN Reply(p, "UserNotFound", request)
           ELSE IF ~isTokenValid
                  THEN Reply(p, "InvalidCode", request)
                  ELSE Await(p, "sv_save", request)
  /\ UNCHANGED <<users, redis, verificationCodes, now, nextId, tokens,
                 invalids, issued>>

StubVerifySave(p) ==
  /\ pc[p] = "sv_save"
  /\ users' = [users EXCEPT ![loc[p].email].lastLogin = now]
  /\ Respond(p, "Token", 0)
  /\ UNCHANGED <<redis, verificationCodes, now, nreq, nextId, tokens,
                 invalids, issued>>

\* POST /setup-2fa (src/unnamed/part_016:194-226)
StubSetup2FA(p, email) ==
  /\ StartRequest(p)
  /\ LET user == findOne(email)
         request == Arrival("setup", email, "", Null)
     IN  IF ~user.exists
           THEN Reply(p, "UserNotFound", request)
           ELSE Await(p, "ss_save", request)
  /\ UNCHANGED <<users, redis, verificationCodes, now, nextId, tokens,
                 invalids, issued>>

StubSetupSave(p) ==
  /\ pc[p] = "ss_save"
  /\ users' = [users EXCEPT ![loc[p].email].hasBeenPromptedFor2FA = TRUE]
  /\ Respond(p, "SetupStarted", 0)
  /\ UNCHANGED <<redis, verificationCodes, now, nreq, nextId, tokens,
                 invalids, issued>>

\* POST /enable-2fa (src/unnamed/part_016:228-260)
StubEnable2FA(p, email) ==
  /\ StartRequest(p)
  /\ LET user == findOne(email)
         request == Arrival("enable", email, "", Null)
         isTokenValid == TRUE
     IN  IF ~user.exists
           THEN Reply(p, "UserNotFound", request)
           ELSE IF ~isTokenValid
                  THEN Reply(p, "InvalidCode", request)
                  ELSE Await(p, "se_save", request)
  /\ UNCHANGED <<users, redis, verificationCodes, now, nextId, tokens,
                 invalids, issued>>

StubEnableSave(p) ==
  /\ pc[p] = "se_save"
  /\ users' = [users EXCEPT ![loc[p].email].is2FAEnabled = TRUE]
  /\ Respond(p, "Enabled", 0)
  /\ UNCHANGED <<redis, verificationCodes, now, nreq, nextId, tokens,
                 invalids, issued>>

NextStub ==
  \/ Tick
  \/ \E p \in Procs, e \in Emails, pw \in Passwords : StubLogin(p, e, pw)
  \/ \E p \in Procs : StubLoginSave(p)
  \/ \E p \in Procs, e \in Emails, c \in SubmitCodes : StubVerify2FA(p, e, c)
  \/ \E p \in Procs : StubVerifySave(p)
  \/ \E p \in Procs, e \in Emails : StubSetup2FA(p, e)
  \/ \E p \in Procs : StubSetupSave(p)
  \/ \E p \in Procs, e \in Emails : StubEnable2FA(p, e)
  \/ \E p \in Procs : StubEnableSave(p)

SpecStub == InitStub /\ [][NextStub]_vars

(***************************************************************************)
(* Properties                                                              *)
(***************************************************************************)
LiveValue(email) == RedisGet(redis, get2FAKey(email))

\* C1: /verify-2fa issues a token only for a request whose code equals the
\* code of the record it found stored for that email.
C1_TokenOnlyForStoredCode ==
  (last.req.op = "verify" /\ last.kind = "Token")
    => (last.req.stored # Null /\ last.req.stored.code = last.req.code)

\* C2: /login never answers with a token.
C2_LoginNeverIssuesToken ==
  last.req.op = "login" => last.kind # "Token"

\* C3 (as stated): a /verify-2fa call that arrives when the stored code has
\* been answered 'Invalid verification code' exactly 3 times is answered
\* 'No verification code found' (ChallengeNotFound), unless the store fails.
C3_FourthIsChallengeNotFound ==
  (last.req.op = "verify" /\ last.req.prior = 3 /\ last.kind # "ServerError")
    => last.kind = "ChallengeNotFound"

\* C3 (amended): a /verify-2fa call that reads a record whose failedAttempts
\* is 3 or more is answered 'Too many failed attempts' (LockedOut), whatever
\* code it carries - never with a token, 'Invalid verification code' or
\* 'No verification code found' - and LockedOut is answered only then; the
\* step that answers LockedOut deletes the record, so that the call after
\* it finds no code.
C3_ReadLocked ==
  /\ (last.req.op = "verify" /\ last.req.stored # Null
        /\ last.req.stored.failedAttempts >= MaxFailedAttempts)
       => last.kind \in {"LockedOut", "ServerError"}
  /\ last.kind = "LockedOut"
       => /\ last.req.stored # Null
          /\ last.req.stored.failedAttempts >= MaxFailedAttempts

C3_LockDeletes ==
  \A p \in Procs :
    (pc[p] = "v_lock" /\ pc'[p] = "idle" /\ last'.kind = "LockedOut")
      => RedisGet(redis', get2FAKey(loc[p].email)) = Null

C3_FourthIsLockedOut == []C3_ReadLocked /\ [][C3_LockDeletes]_vars

\* C3 witness: the correct code, sent after 3 wrong ones, was answered
\* LockedOut and the record is gone.
C3_Witness ==
  /\ last.kind = "LockedOut"
  /\ last.req.code = last.req.stored.code
  /\ last.req.prior = 3
  /\ invalids[last.id] = 3
  /\ LiveValue(last.req.email) = Null

\* C4: no token is issued on a record whose failedAttempts is 3 or more.
C4_LockedRecordNeverSucceeds ==
  (last.req.op = "verify" /\ last.kind = "Token")
    => OrZero(last.req.stored.failedAttempts) < MaxFailedAttempts

\* C5: the failed-attempt counter loses no update, so one code is answered
\* 'Invalid verification code' at most 3 times.
C5_AtMostThreeInvalid ==
  \A i \in Ids : invalids[i] <= MaxFailedAttempts

\* C6: a code that has bought a token never buys another one in a call that
\* arrives later.
C6_OneTimeCode ==
  last.kind = "Token" => last.id \notin last.req.seen

\* C7: at most one token is issued per generated code, also when correct
\* codes race.
C7_AtMostOneToken ==
  \A i \in Ids : tokens[i] <= 1

\* C8: no token is issued for a code generated more than 600 s before the
\* call.
C8_NoTokenAfterLifetime ==
  last.kind = "Token" => last.req.at - last.req.stored.createdAt <= ChallengeTTL

\* C9: the expiry of a stored code is its generation time + 600 s, whatever
\* failed attempts were recorded since.
C9_ExpiryFixedAtIssuance ==
  \A k \in Keys :
    redis[k].value # Null => redis[k].expireAt = redis[k].value.createdAt + ChallengeTTL

\* C10: once /resend-2fa-code has announced a new code, a call that arrives
\* later with the previous code (different from the new one) gets no token.
C10_PreviousCodeRejected ==
  (last.kind = "Token" /\ last.req.latest.op = "resend")
    => ~(last.id < last.req.latest.id /\ last.req.code # last.req.latest.code)

\* the handler positions at which redisService.set and send2FACode are awaited
SetLabels == {"g_set", "l_set", "r_set"}
SendLabels == {"g_send", "l_send", "r_send"}

\* C11: the store holds at most one live code per identity, and every
\* issuance (register, login, auto-enrol login, resend) is one store write
\* that replaces the record of that identity with the new code,
\* failedAttempts 0 and an expiry 600 s ahead, and touches no other record.
C11_AtMostOneLive ==
  \A e \in Emails :
    Cardinality({k \in Keys : k = get2FAKey(e) /\ RedisGet(redis, k) # Null}) <= 1

C11_OneWrite ==
  \A p \in Procs :
    (pc[p] \in SetLabels /\ pc'[p] \in SendLabels) =>
      LET k == get2FAKey(loc[p].email)
      IN  /\ redis'[k].value = loc'[p].stored
          /\ redis'[k].value.id = nextId
          /\ redis'[k].value.code \in GenCodes
          /\ redis'[k].value.failedAttempts = 0
          /\ redis'[k].expireAt = now + ChallengeTTL
          /\ \A j \in Keys \ {k} : redis'[j] = redis[j]

C11_IssuanceReplaces == []C11_AtMostOneLive /\ [][C11_OneWrite]_vars

\* C11 witness: an issuance has just replaced, later than its creation, a
\* record that had already been answered with wrong codes.
C11_Witness ==
  \E p \in Procs :
    /\ pc[p] \in SendLabels
    /\ loc[p].prior > 0
    /\ now > 0
    /\ LiveValue(loc[p].email) = loc[p].stored
    /\ loc[p].stored.failedAttempts = 0

\* C12: once an issuance has been answered, the stored record of that email
\* is never one generated before it.
C12_LatestIssuanceStored ==
  \A e \in Emails :
    (issued[e].id > 0 /\ LiveValue(e) # Null) => LiveValue(e).id >= issued[e].id

\* C13: /login with a wrong password for an existing active identity is
\* answered 'Invalid email or password' at once, and the step changes
\* neither the store nor the user documents; nothing is generated or sent.
C13_Step ==
  \A p \in Procs, e \in Emails, pw \in Passwords :
    (Login(p, e, pw) /\ users[e].exists /\ users[e].isActive
       /\ pw # users[e].password)
      => /\ last'.kind = "InvalidCredentials"
         /\ last'.req.email = e
         /\ pc' = pc
         /\ UNCHANGED <<redis, verificationCodes, users, issued, nextId>>

C13_WrongPasswordFrame == [][C13_Step]_vars

\* C13 witness: alice, active, was answered InvalidCredentials while her
\* pending code stayed stored.
C13_Witness ==
  /\ last.req.op = "login"
  /\ last.kind = "InvalidCredentials"
  /\ users[last.req.email].exists
  /\ users[last.req.email].isActive
  /\ LiveValue(last.req.email) # Null

\* C14: /login for an email with no identity and /login with a wrong
\* password for an existing identity, deactivated or not, get one and the
\* same answer, and the handler stops there.
C14_Step ==
  \A p \in Procs, e \in Emails, pw \in Passwords :
    (Login(p, e, pw) /\ (~users[e].exists \/ pw # users[e].password))
      => /\ last'.kind = "InvalidCredentials"
         /\ last'.id = 0
         /\ pc' = pc

C14_SameOutcome == [][C14_Step]_vars

\* C14 witness: a deactivated identity got the answer of an unknown email.
C14_Witness ==
  /\ last.req.op = "login"
  /\ last.kind = "InvalidCredentials"
  /\ users[last.req.email].exists
  /\ ~users[last.req.email].isActive

\* C15: /login answers 'Account is deactivated' exactly when the identity
\* exists, the password is right and isActive is false; that step writes no
\* code, sends nothing and changes no user document.
C15_Step ==
  \A p \in Procs, e \in Emails, pw \in Passwords :
    Login(p, e, pw) =>
      IF users[e].exists /\ pw = users[e].password /\ ~users[e].isActive
        THEN /\ last'.kind = "AccountDeactivated"
             /\ pc' = pc
             /\ UNCHANGED <<redis, verificationCodes, users, issued, nextId>>
        ELSE pc' # pc \/ last'.kind # "AccountDeactivated"

C15_OnlyLogin ==
  last.kind = "AccountDeactivated"
    => /\ last.req.op = "login"
       /\ users[last.req.email].exists
       /\ ~users[last.req.email].isActive

C15_Deactivated == []C15_OnlyLogin /\ [][C15_Step]_vars

\* C15 witness: deactivated bob was refused and is still a legacy identity
\* with no code stored.
C15_Witness ==
  /\ last.kind = "AccountDeactivated"
  /\ ~users[last.req.email].is2FAEnabled
  /\ ~users[last.req.email].hasBeenPromptedFor2FA
  /\ LiveValue(last.req.email) = Null

\* C16: a token is only ever issued for an identity whose is2FAEnabled is
\* true.
C16_TokenImpliesTwoFactor ==
  last.kind = "Token" => users[last.req.email].is2FAEnabled

\* C17: when /login of a legacy identity fails, the identity is still a
\* legacy identity (is2FAEnabled false).
C17_FailedEnrolChangesNothing ==
  (last.req.op = "login" /\ last.req.legacy /\ last.kind = "ServerError")
    => ~users[last.req.email].is2FAEnabled

\* C18: in /login and /resend-2fa-code, a failed redisService.set ends the
\* request with the 500 answer and send2FACode is not called; send2FACode is
\* awaited only after the write, with the written record stored.
C18_Step ==
  \A p \in Procs :
    (pc[p] \in {"l_set", "r_set"} /\ pc'[p] # pc[p]) =>
      IF redis' = redis
        THEN /\ pc'[p] = "idle"
             /\ last'.kind = "ServerError"
             /\ issued' = issued
        ELSE /\ pc'[p] \in {"l_send", "r_send"}
             /\ redis'[get2FAKey(loc[p].email)].value = loc'[p].stored

C18_SendHoldsRecord ==
  \A p \in Procs : pc[p] \in {"l_send", "r_send"} => loc[p].stored # Null

C18_NoDeliveryAfterFailedWrite == []C18_SendHoldsRecord /\ [][C18_Step]_vars

\* C18 witness: a resend failed at the store write; nothing was stored or
\* announced for it.
C18_Witness ==
  /\ last.req.op = "resend"
  /\ last.kind = "ServerError"
  /\ last.req.stored = Null
  /\ issued[last.req.email] = last.req.latest

\* C19: an issuing operation that stored a code answers success only when
\* that code was delivered.
C19_DeliveryFailureIsReported ==
  (last.kind = "Pending" /\ last.req.stored # Null)
    => issued[last.req.email].id = last.req.stored.id

\* C20: /resend-2fa-code goes on to generate a code only for an existing
\* identity with is2FAEnabled; otherwise it answers 'User not found' or
\* '2FA is not enabled' at once, writing and sending nothing.
C20_Step ==
  \A p \in Procs, e \in Emails :
    Resend2FACode(p, e) =>
      IF users[e].exists /\ users[e].is2FAEnabled
        THEN pc'[p] = "r_set"
        ELSE /\ pc' = pc
             /\ last'.kind \in {"UserNotFound", "TwoFANotEnabled"}
             /\ UNCHANGED <<redis, verificationCodes, users, issued, nextId>>

C20_IssuerOnlyIfEligible ==
  \A p \in Procs :
    pc[p] \in {"r_set", "r_send"}
      => users[loc[p].email].exists /\ users[loc[p].email].is2FAEnabled

C20_ResendEligibility == []C20_IssuerOnlyIfEligible /\ [][C20_Step]_vars

\* C20 witness: a resend for legacy bob was refused and nothing is stored
\* for him.
C20_Witness ==
  /\ last.req.op = "resend"
  /\ last.kind = "TwoFANotEnabled"
  /\ users[last.req.email].exists
  /\ LiveValue(last.req.email) = Null

\* C21: in the two-factor flow of the Redis router lastLogin is written by
\* the step that answers a successful /verify-2fa with a token, for the
\* e-mail of that request and with the time of that step, and by no other
\* step: a login (answered or failed), a resend and a verify answered
\* 'Invalid verification code', 'Too many failed attempts' or 'No
\* verification code found' leave lastLogin of every identity unchanged.
C21_Step ==
  \A e \in Emails :
    /\ users'[e].lastLogin # users[e].lastLogin
         => \E p \in Procs :
              /\ pc[p] = "v_save" /\ pc'[p] = "idle"
              /\ loc[p].op = "verify" /\ loc[p].email = e
              /\ last'.kind = "Token" /\ last'.req = loc[p]
    /\ (\E p \in Procs :
          /\ pc[p] # "idle" /\ pc'[p] = "idle"
          /\ loc[p].email = e
          /\ last'.kind = "Token")
         => users'[e].lastLogin = now
    /\ (\E p \in Procs :
          /\ pc[p] # pc'[p]
          /\ last'.kind # "Token" \/ pc'[p] # "idle")
         => users'[e].lastLogin = users[e].lastLogin

C21_LastLoginOnlyByVerify == [][C21_Step]_vars

\* C21 witness: after a wrong code was answered and time has passed, the
\* right code was answered with a token and lastLogin of the identity holds
\* the time of that verification.
C21_Witness ==
  /\ last.kind = "Token"
  /\ last.req.op = "verify"
  /\ now > 0
  /\ users[last.req.email].lastLogin = now
  /\ invalids[last.id] > 0

\* C22: a /register is answered either with a pending code and no token,
\* for an identity that then exists with is2FAEnabled true, or with a
\* refusal for an e-mail that already has an identity.
C22_RegisterIsPending ==
  last.req.op = "register" =>
    \/ /\ last.kind = "Pending"
       /\ users[last.req.email].exists
       /\ users[last.req.email].is2FAEnabled
    \/ /\ last.kind \in {"UserExists", "ServerError"}
       /\ users[last.req.email].exists

\* C23: the failedAttempts of a stored code is between 0 and 3, and a step
\* that changes the record stored for an e-mail either stores a newly
\* generated code with failedAttempts 0, or removes the record, or answers
\* 'Invalid verification code' and adds exactly 1 to the failedAttempts of
\* the record that was stored.
C23_Step ==
  \A e \in Emails :
    LET old == redis[get2FAKey(e)].value
        new == redis'[get2FAKey(e)].value
    IN  /\ new # Null => new.failedAttempts \in 0..MaxFailedAttempts
        /\ (new # old /\ new # Null) =>
             \/ /\ new.id = nextId
                /\ nextId' = nextId + 1
                /\ new.failedAttempts = 0
             \/ /\ old # Null
                /\ new = [old EXCEPT !.failedAttempts = @ + 1]
                /\ last'.kind = "InvalidCode"

C23_CounterStateMachine == [][C23_Step]_vars

\* C24: a /verify-2fa whose call of the store fails (get, set or delete) is
\* answered with the store-unavailable answer in that step, and the step
\* issues no token and records no login.
C24_Step ==
  \A p \in Procs :
    (\/ VerifyGetCaught(p, FALSE)
     \/ VerifyLockCaught(p, FALSE)
     \/ VerifyFailCaught(p, FALSE)
     \/ VerifyDelCaught(p, FALSE))
      => /\ pc'[p] = "idle"
         /\ last'.kind = "StoreUnavailable"
         /\ UNCHANGED <<users, tokens>>

C24_StoreFailureIsTyped == [][C24_Step]_vars

\* a string of exactly six decimal digits
SixDigits(code) ==
  /\ Len(code) = 6
  /\ \A i \in 1..6 :
       SubSeq(code, i, i) \in {"0", "1", "2", "3", "4", "5", "6", "7", "8", "9"}

\* C25: a /verify-2fa whose code is not exactly six digits, sent for an
\* e-mail that had a live code when the request arrived, is refused as
\* malformed (or ends with the error of a failed store call): it is never
\* compared with the stored code, so it is answered neither 'Invalid
\* verification code' (a counted attempt) nor 'Too many failed attempts'
\* (the record removed) nor with a token.
C25_MalformedIsRefused ==
  (/\ last.req.op = "verify"
   /\ ~SixDigits(last.req.code)
   /\ last.req.stored # Null)
    => last.kind \in {"FieldsRequired", "ServerError"}

\* C26: for a token with the issuer and audience of generateToken, verify
\* returns the payload when the signature is good and the token unexpired,
\* fails as expired when the signature is good and exp has passed, and fails
\* as invalid when the signature is bad, the two failures being different
\* results; the middleware answers one 401 'Token is invalid.' for both.
C26_VerifyOutcomes ==
  LET t == last.req.token
  IN  /\ (/\ last.req.op \in {"verifyToken", "TokenUtils.verifyToken"}
          /\ t.iss = "reflective-pomodoro"
          /\ t.aud = "reflective-pomodoro-users")
        => last.kind = (IF ~t.signed
                          THEN "Invalid token"
                          ELSE IF last.req.at >= t.exp
                                 THEN "Token expired"
                                 ELSE "decoded")
      /\ (/\ last.req.op = "auth"
          /\ t # NoJwt
          /\ ~t.signed \/ last.req.at >= t.exp)
        => last.kind = "Token is invalid."

\* C27: the code stored for an identity is found by /verify-2fa under every
\* spelling of the e-mail that resolves to that identity: the handler
\* answers 'No verification code found' only when no live code is stored
\* under the key that /login and /resend-2fa-code write for the identity.
C27_Step ==
  \A p \in Procs :
    (/\ pc[p] = "v_get"
     /\ pc'[p] = "idle"
     /\ last'.kind = "ChallengeNotFound")
      => RedisGet(redis, get2FAKey(Lowered[loc[p].email])) = Null

C27_LookupUsesIssueKey == [][C27_Step]_vars

\* C28: every code in the store is a string of exactly six decimal digits
\* whose value is between 100000 and 999999, and /verify-2fa compares the
\* submitted value with it as a string: a token is answered only for the
\* string equal to the stored code, never for the number of the same value.
C28_SixDigitStringCodes ==
  /\ \A e \in Emails :
       LET storedData == redis[get2FAKey(e)].value
       IN  storedData # Null
             => /\ SixDigits(storedData.code)
                /\ ToNumber(storedData.code) \in 100000..999999
  /\ (last.req.op = "verify" /\ last.kind = "Token")
       => last.req.code = JsString(last.req.stored.code)
  /\ (last.req.op = "verify" /\ last.req.stored # Null
      /\ last.req.code.type = "number")
       => last.kind # "Token"

\* C28 witness: the greatest code, 999999, was stored and the number 999999
\* was answered 'Invalid verification code'.
C28_Witness ==
  /\ last.req.op = "verify"
  /\ last.kind = "InvalidCode"
  /\ last.req.stored.code = "999999"
  /\ last.req.code = JsNumber(999999)

\* C29: a step that answers 'Invalid verification code' has written the
\* failed attempt: after it the store holds, for the e-mail of the request,
\* the record the handler read with failedAttempts one higher.
C29_Step ==
  \A p \in Procs :
    (/\ pc[p] = "v_fail"
     /\ pc'[p] = "idle"
     /\ last'.kind = "InvalidCode")
      => redis'[get2FAKey(loc[p].email)].value =
           [loc[p].stored EXCEPT !.failedAttempts = @ + 1]

C29_InvalidCodeIsPersisted == [][C29_Step]_vars

\* C30: when /register, /login or /resend-2fa-code answers that a code is
\* required or was sent, the store holds at that moment a live code for the
\* e-mail of the request, and that code is the one whose delivery returned.
C30_Step ==
  (/\ last' # last
   /\ last'.kind = "Pending"
   /\ last'.req.op \in {"register", "login", "resend"})
    => LET e == last'.req.email
           entry == redis'[get2FAKey(e)]
       IN  /\ entry.value # Null
           /\ now' < entry.expireAt
           /\ issued'[e].id = entry.value.id
           /\ issued'[e].code = entry.value.code

C30_AnnouncedCodeIsLiveAndSent == [][C30_Step]_vars

\* C31: the middleware calls next only in a step in which the user named by
\* the token exists and is active, for a token that is signed, unexpired and
\* carries the issuer and audience of generateToken; so a request with a
\* token of an account that has since been deactivated or removed is
\* answered 401 whenever it is made.
C31_Step ==
  \A p \in Procs :
    (pc[p] = "a_find" /\ pc'[p] = "idle")
      => LET t == loc[p].token
             user == users'[loc[p].email]
         IN  /\ last'.req = loc[p]
             /\ t.signed /\ loc[p].at < t.exp
             /\ t.iss = "reflective-pomodoro"
             /\ t.aud = "reflective-pomodoro-users"
             /\ last'.kind = "next" <=> (user.exists /\ user.isActive)
             /\ last'.kind # "next"
                  => last'.kind \in {"Token is invalid. User not found.",
                                     "Account is deactivated."}

C31_NextOnlyForLiveAccount ==
  (last.req.op = "auth" /\ last.kind = "next")
    => /\ last.req.token.signed
       /\ last.req.at < last.req.token.exp

C31_PassOnlyCurrentActiveUser ==
  []C31_NextOnlyForLiveAccount /\ [][C31_Step]_vars

\* C31 witness: a good token of alice, whose account existed and was active
\* when the server started, is answered 401 after the account was
\* deactivated or removed.
C31_Witness ==
  /\ last.req.op = "auth"
  /\ last.req.email = "alice@example.com"
  /\ last.req.token.signed
  /\ last.req.at < last.req.token.exp
  /\ last.kind \in {"Token is invalid. User not found.",
                    "Account is deactivated."}

\* C32: a body answered from the cache was stored from a request of the
\* same authenticated user (and only GET requests are answered from the
\* cache, only with bodies of 2xx answers to the same URL).
C32_CachedBodyIsOwn ==
  last.kind = "cached"
    => /\ last.req.op = "GET"
       /\ last.req.body.url = last.req.url
       /\ last.req.body.owner = last.req.email

====
